---------------------------- MODULE Spec2Model ----------------------------
(***************************************************************************)
(* GF(2^127) arithmetic of gf2p127.h, modulo f(x) = x^127 + x^63 + 1.      *)
(*                                                                         *)
(* A 128-bit register (__m128i) is the set of the positions of its 1 bits, *)
(* a subset of 0..127; a 64-bit word is a subset of 0..63.  XOR is the     *)
(* symmetric difference, OR the union, and every intrinsic the header uses *)
(* is an operator on such sets with the lane structure it has on the       *)
(* machine (64-bit lanes for the epi64 forms, 32-bit lanes for the         *)
(* shuffle, bytes for the si128 shifts and alignr).                        *)
(***************************************************************************)
EXTENDS Integers, FiniteSets, Sequences

VARIABLES a, b, c, op, r, bit, v, str, n

vars == <<a, b, c, op, r, bit, v, str, n>>

-----------------------------------------------------------------------------
(* Bounds of the model.                                                    *)

\* how many of the canonical test elements the operands are drawn from
NumCanon == 5
\* how many times a produced element is fed back as an operand
MaxFeed == 2
\* how many non-canonical containers (bit 127 set) are added for the
\* claims about arbitrary 128-bit values
NumNonCanon == 2

-----------------------------------------------------------------------------
(* The machine: 128-bit registers and the SSE/PCLMUL intrinsics.           *)

Pow2(k) == 2 ^ k

Max(S) == CHOOSE m \in S : \A k \in S : k <= m

\* the low / high 64-bit lane of a register, as a 64-bit word
Lane0(x) == {k \in x : k < 64}
Lane1(x) == {k - 64 : k \in {j \in x : j >= 64}}
\* the register with low lane w0 and high lane w1
Pack(w0, w1) == w0 \cup {k + 64 : k \in w1}

_mm_setzero_si128 == {}

_mm_xor_si128(x, y) == (x \ y) \cup (y \ x)

_mm_or_si128(x, y) == x \cup y

\* the low 32 bits hold the int's two's complement pattern, the rest is 0
_mm_cvtsi32_si128(i) ==
  LET low31 == IF i >= 0 THEN i ELSE (i + 2147483647) + 1
  IN  {k \in 0..30 : (low31 \div Pow2(k)) % 2 = 1}
        \cup (IF i < 0 THEN {31} ELSE {})

\* each 64-bit lane shifted left by cnt, zero filled; a count above 63
\* gives zero
_mm_slli_epi64(x, cnt) ==
  IF cnt > 63 THEN {}
  ELSE {k + cnt : k \in {j \in x : (j % 64) + cnt < 64}}

\* each 64-bit lane shifted right by cnt, zero filled
_mm_srli_epi64(x, cnt) ==
  IF cnt > 63 THEN {}
  ELSE {k - cnt : k \in {j \in x : (j % 64) >= cnt}}

\* the whole register shifted left / right by a number of bytes
_mm_slli_si128(x, bytes) ==
  IF bytes > 15 THEN {}
  ELSE {k + 8 * bytes : k \in {j \in x : j + 8 * bytes < 128}}

_mm_srli_si128(x, bytes) ==
  IF bytes > 15 THEN {}
  ELSE {k - 8 * bytes : k \in {j \in x : j >= 8 * bytes}}

\* low lane of x below low lane of y / high lane of x below high lane of y
_mm_unpacklo_epi64(x, y) == Pack(Lane0(x), Lane0(y))

_mm_unpackhi_epi64(x, y) == Pack(Lane1(x), Lane1(y))

\* the 256-bit value x:y (x above y) shifted right by a number of bytes,
\* its low 128 bits
_mm_alignr_epi8(x, y, bytes) ==
  LET cat == y \cup {k + 128 : k \in x}
  IN  {k - 8 * bytes : k \in {j \in cat : j >= 8 * bytes /\ j - 8 * bytes < 128}}

\* the selector of a shuffle: dword 0 of the result is dword w of the
\* source, dword 1 is dword x, dword 2 is dword y and dword 3 is dword z
_MM_SHUFFLE(z, y, x, w) == z * 64 + y * 16 + x * 4 + w

_mm_shuffle_epi32(x, imm) ==
  LET src(d) == (imm \div Pow2(2 * d)) % 4
  IN  UNION {{32 * d + (k % 32) : k \in {j \in x : j \div 32 = src(d)}} : d \in 0..3}

\* the 64-bit lane ndx of the register
_mm_extract_epi64(x, ndx) == IF ndx = 0 THEN Lane0(x) ELSE Lane1(x)

\* carry-less product of two 64-bit words: coefficient k is the XOR over
\* i + j = k of x[i] AND y[j]
CLMul64(x, y) ==
  {k \in {i + j : i \in x, j \in y} :
      Cardinality({i \in x : (k - i) \in y}) % 2 = 1}

\* bit 0 of imm picks the lane of x, bit 4 picks the lane of y
_mm_clmulepi64_si128(x, y, imm) ==
  CLMul64(IF imm % 2 = 0 THEN Lane0(x) ELSE Lane1(x),
          IF (imm \div 16) % 2 = 0 THEN Lane0(y) ELSE Lane1(y))

-----------------------------------------------------------------------------
(* The functions of gf2p127.h.                                             *)

gf2p127_eq(x, y) ==
  LET lo == _mm_extract_epi64(x, 0) = _mm_extract_epi64(y, 0)
      hi == _mm_extract_epi64(x, 1) = _mm_extract_epi64(y, 1)
  IN  lo /\ hi

gf2p127_zero == _mm_setzero_si128

gf2p127_from_int(i) == _mm_cvtsi32_si128(i)

\* mutant: the negation of bit forgotten
gf2p127_mul_bit_NoNegation(x, bt) ==
  _mm_slli_epi64(x, (IF bt THEN 1 ELSE 0) * 64)

\* !bit * 64 is 0 for a true bit and 64 for a false one
gf2p127_mul_bit(x, bt) == _mm_slli_epi64(x, (IF bt THEN 0 ELSE 1) * 64)

gf2p127_add(x, y) == _mm_xor_si128(x, y)

gf2p127_mul_00(x) == _mm_setzero_si128

gf2p127_mul_01(x) == x

\* mutant: the shifted value returned as it is, without the reduction terms
gf2p127_mul_10_NoReduction(x) ==
  LET sl == _mm_slli_epi64(x, 1)
      sr == _mm_srli_epi64(x, 63)
  IN  _mm_or_si128(sl, _mm_slli_si128(sr, 8))

\* mutant: the carry from the low lane into the high lane forgotten
gf2p127_mul_10_NoCarry(x) ==
  LET sl      == _mm_slli_epi64(x, 1)
      over    == _mm_srli_epi64(sl, 63)
      x127    == _mm_slli_epi64(over, 63)
      x127x63 == _mm_shuffle_epi32(x127, _MM_SHUFFLE(3, 2, 3, 2))
      one     == _mm_shuffle_epi32(over, _MM_SHUFFLE(3, 3, 3, 2))
  IN  _mm_xor_si128(_mm_xor_si128(sl, x127x63), one)

\* mutant: the term 1 taken from the overflow bit of the low lane
gf2p127_mul_10_OneFromLowLane(x) ==
  LET sl      == _mm_slli_epi64(x, 1)
      sr      == _mm_srli_epi64(x, 63)
      cc      == _mm_or_si128(sl, _mm_slli_si128(sr, 8))
      over    == _mm_srli_epi64(sl, 63)
      x127    == _mm_slli_epi64(over, 63)
      x127x63 == _mm_shuffle_epi32(x127, _MM_SHUFFLE(3, 2, 3, 2))
      one     == _mm_shuffle_epi32(over, _MM_SHUFFLE(3, 3, 3, 0))
  IN  _mm_xor_si128(_mm_xor_si128(cc, x127x63), one)

gf2p127_mul_10(x) ==
  LET sl      == _mm_slli_epi64(x, 1)
      sr      == _mm_srli_epi64(x, 63)
      cc      == _mm_or_si128(sl, _mm_slli_si128(sr, 8))
      over    == _mm_srli_epi64(sl, 63)
      x127    == _mm_slli_epi64(over, 63)
      x127x63 == _mm_shuffle_epi32(x127, _MM_SHUFFLE(3, 2, 3, 2))
      one     == _mm_shuffle_epi32(over, _MM_SHUFFLE(3, 3, 3, 2))
  IN  _mm_xor_si128(_mm_xor_si128(cc, x127x63), one)

gf2p127_mul_11(x) ==
  LET mul01 == gf2p127_mul_01(x)
      mul10 == gf2p127_mul_10(x)
  IN  _mm_xor_si128(mul01, mul10)

\* mutant: the middle term folded into lo with OR instead of XOR
Karatsuba_OrFold(x, y) ==
  LET tmp1 == _mm_xor_si128(_mm_unpacklo_epi64(x, y), _mm_unpackhi_epi64(x, y))
      tmp2 == _mm_clmulepi64_si128(tmp1, tmp1, 16)
      lo1  == _mm_clmulepi64_si128(x, y, 0)
      hi1  == _mm_clmulepi64_si128(x, y, 17)
      tmp3 == _mm_xor_si128(tmp2, _mm_xor_si128(lo1, hi1))
      lo2  == _mm_or_si128(lo1, _mm_slli_si128(tmp3, 8))
      hi2  == _mm_xor_si128(hi1, _mm_srli_si128(tmp3, 8))
  IN  <<lo2, hi2>>

\* the Karatsuba stage: <<lo, hi>>, the un-reduced product
Karatsuba(x, y) ==
  LET tmp1 == _mm_xor_si128(_mm_unpacklo_epi64(x, y), _mm_unpackhi_epi64(x, y))
      tmp2 == _mm_clmulepi64_si128(tmp1, tmp1, 16)
      lo1  == _mm_clmulepi64_si128(x, y, 0)
      hi1  == _mm_clmulepi64_si128(x, y, 17)
      tmp3 == _mm_xor_si128(tmp2, _mm_xor_si128(lo1, hi1))
      lo2  == _mm_xor_si128(lo1, _mm_slli_si128(tmp3, 8))
      hi2  == _mm_xor_si128(hi1, _mm_srli_si128(tmp3, 8))
  IN  <<lo2, hi2>>

\* mutant: the last fold (bit 127 of the intermediate into x^63 + 1 and
\* out of bit 127) left out
Reduction_NoFinalFold(lo2, hi2) ==
  LET tmp4 == _mm_alignr_epi8(hi2, lo2, 8)
      tmp5 == _mm_xor_si128(tmp4, hi2)
      hi3  == _mm_slli_epi64(hi2, 1)
      lo3  == _mm_xor_si128(lo2, hi3)
      hi4  == _mm_unpackhi_epi64(hi3, tmp5)
      lo4  == _mm_xor_si128(lo3, hi4)
      tmp6 == _mm_srli_epi64(tmp5, 63)
      lo5  == _mm_xor_si128(lo4, tmp6)
  IN  lo5

\* mutant: tmp not XORed with hi after the alignr
Reduction_NoHiXor(lo2, hi2) ==
  LET tmp5 == _mm_alignr_epi8(hi2, lo2, 8)
      hi3  == _mm_slli_epi64(hi2, 1)
      lo3  == _mm_xor_si128(lo2, hi3)
      hi4  == _mm_unpackhi_epi64(hi3, tmp5)
      lo4  == _mm_xor_si128(lo3, hi4)
      tmp6 == _mm_srli_epi64(tmp5, 63)
      lo5  == _mm_xor_si128(lo4, tmp6)
      hi5  == _mm_unpacklo_epi64(tmp6, tmp6)
      lo6  == _mm_xor_si128(lo5, _mm_slli_epi64(hi5, 63))
  IN  lo6

\* mutant: the high part shifted as one 128-bit value, not lane by lane
Reduction_WideShift(lo2, hi2) ==
  LET tmp4 == _mm_alignr_epi8(hi2, lo2, 8)
      tmp5 == _mm_xor_si128(tmp4, hi2)
      hi3  == {k + 1 : k \in {j \in hi2 : j < 127}}
      lo3  == _mm_xor_si128(lo2, hi3)
      hi4  == _mm_unpackhi_epi64(hi3, tmp5)
      lo4  == _mm_xor_si128(lo3, hi4)
      tmp6 == _mm_srli_epi64(tmp5, 63)
      lo5  == _mm_xor_si128(lo4, tmp6)
      hi5  == _mm_unpacklo_epi64(tmp6, tmp6)
      lo6  == _mm_xor_si128(lo5, _mm_slli_epi64(hi5, 63))
  IN  lo6

\* mutant: the last fold taken from tmp itself, without the unpacklo that
\* copies its low lane into both lanes
Reduction_NoUnpack(lo2, hi2) ==
  LET tmp4 == _mm_alignr_epi8(hi2, lo2, 8)
      tmp5 == _mm_xor_si128(tmp4, hi2)
      hi3  == _mm_slli_epi64(hi2, 1)
      lo3  == _mm_xor_si128(lo2, hi3)
      hi4  == _mm_unpackhi_epi64(hi3, tmp5)
      lo4  == _mm_xor_si128(lo3, hi4)
      tmp6 == _mm_srli_epi64(tmp5, 63)
      lo5  == _mm_xor_si128(lo4, tmp6)
      lo6  == _mm_xor_si128(lo5, _mm_slli_epi64(tmp6, 63))
  IN  lo6

\* the reduction stage, from the un-reduced <<lo, hi>>
Reduction(lo2, hi2) ==
  LET tmp4 == _mm_alignr_epi8(hi2, lo2, 8)
      tmp5 == _mm_xor_si128(tmp4, hi2)
      hi3  == _mm_slli_epi64(hi2, 1)
      lo3  == _mm_xor_si128(lo2, hi3)
      hi4  == _mm_unpackhi_epi64(hi3, tmp5)
      lo4  == _mm_xor_si128(lo3, hi4)
      tmp6 == _mm_srli_epi64(tmp5, 63)
      lo5  == _mm_xor_si128(lo4, tmp6)
      hi5  == _mm_unpacklo_epi64(tmp6, tmp6)
      lo6  == _mm_xor_si128(lo5, _mm_slli_epi64(hi5, 63))
  IN  lo6

gf2p127_mul(x, y) ==
  LET p == Karatsuba(x, y)
  IN  Reduction(p[1], p[2])


HexChars == <<"0", "1", "2", "3", "4", "5", "6", "7",
              "8", "9", "a", "b", "c", "d", "e", "f">>

\* the value of the i-th 4-bit group of a 64-bit word
Nibble(w, i) ==
  (IF 4 * i \in w THEN 1 ELSE 0) + (IF 4 * i + 1 \in w THEN 2 ELSE 0)
    + (IF 4 * i + 2 \in w THEN 4 ELSE 0) + (IF 4 * i + 3 \in w THEN 8 ELSE 0)

\* the llx conversion: the hexadecimal digits of the word read as unsigned,
\* most significant first, without leading zeros (none at all for 0)
ConvLLX(w) ==
  LET len == IF w = {} THEN 0 ELSE (Max(w) \div 4) + 1
  IN  [k \in 1..len |-> HexChars[Nibble(w, len - k) + 1]]

\* a precision p on an integer conversion: at least p digits, padded on the
\* left with zeros
Precision(digits, p) ==
  IF Len(digits) >= p THEN digits
  ELSE [k \in 1..(p - Len(digits)) |-> "0"] \o digits

\* mutant: the two conversions without their precision
gf2p127_hex_NoPrecision(m) ==
  ConvLLX(_mm_extract_epi64(m, 1)) \o ConvLLX(_mm_extract_epi64(m, 0))

\* sprintf(str, "%.16llx%.16llx", high lane, low lane)
gf2p127_hex(m) ==
  Precision(ConvLLX(_mm_extract_epi64(m, 1)), 16)
    \o Precision(ConvLLX(_mm_extract_epi64(m, 0)), 16)

-----------------------------------------------------------------------------
(* The caller: three operands a, b, c, the last call op with its scalar    *)
(* argument (bit, v), and what the call returned (r, or the buffer str).   *)

\* elements of the field: bit 127 of the container is 0
Canonical(x) == 127 \notin x

\* k doublings of x, one after the other: the first half of them gives y,
\* the second half is applied to y
RECURSIVE Doublings(_, _)
Doublings(x, k) ==
  IF k = 0 THEN x
  ELSE IF k = 1 THEN gf2p127_mul_10(x)
  ELSE CHOOSE z \in {Doublings(y, k - (k \div 2)) :
                        y \in {Doublings(x, k \div 2)}} : TRUE

\* x^k, by k doublings of from_int(1)
XPow(k) == Doublings(gf2p127_from_int(1), k)

\* the sum of the monomials x^k of S with lo <= k <= hi
RECURSIVE PolyRange(_, _, _)
PolyRange(S, lo, hi) ==
  IF lo = hi THEN (IF lo \in S THEN XPow(lo) ELSE gf2p127_zero)
  ELSE LET mid == (lo + hi) \div 2
       IN  gf2p127_add(PolyRange(S, lo, mid), PolyRange(S, mid + 1, hi))

\* the element with the coefficients S, built by the header's functions
Poly(S) == PolyRange(S, 0, 126)

TestCoeffs ==
  << {},                             \* 0
     0..126,                         \* every coefficient set
     {126},                          \* x^126, the top coefficient alone
     {63, 64},                       \* across the two lanes
     {0, 31, 62, 95, 125},           \* scattered
     {0, 1, 62, 63, 64, 65, 126},
     {k \in 0..126 : k % 3 = 0} >>

\* the coefficients of the i-th test element; past the table, every i-th
\* coefficient
Coeffs(i) ==
  IF i <= Len(TestCoeffs) THEN TestCoeffs[i] ELSE {k \in 0..126 : k % i = 1}

\* field elements, each built by the header's own functions
Canon == {Poly(Coeffs(i)) : i \in 1..NumCanon}

\* containers that are no field element: bit 127 set
NonCanon == {Coeffs(i) \cup {127} : i \in 1..NumNonCanon}

IntInputs == {-1, 0, 1, 2, 3}

Producing == {"zero", "from_int", "mul_bit", "add", "mul_00", "mul_01",
              "mul_10", "mul_11", "mul"}

Start(elems) ==
  /\ a \in elems /\ b \in elems /\ c \in elems
  /\ op = "init" /\ r = gf2p127_zero
  /\ bit = FALSE /\ v = 0 /\ str = <<>> /\ n = 0

\* the operands are elements the functions themselves have produced
Init == Start(Canon)

\* __m128i values the caller can hand in, canonical or not
InitAny == Start(Canon \cup NonCanon)

\* r = gf2p127_zero()
Zero ==
  /\ op' = "zero" /\ r' = gf2p127_zero
  /\ bit' = FALSE /\ v' = 0 /\ str' = <<>>
  /\ UNCHANGED <<a, b, c, n>>

\* r = gf2p127_from_int(i)
FromInt ==
  \E i \in IntInputs :
    /\ op' = "from_int" /\ r' = gf2p127_from_int(i) /\ v' = i
    /\ bit' = FALSE /\ str' = <<>>
    /\ UNCHANGED <<a, b, c, n>>

\* r = gf2p127_mul_bit(a, bt)
MulBit ==
  \E bt \in BOOLEAN :
    /\ op' = "mul_bit" /\ r' = gf2p127_mul_bit(a, bt) /\ bit' = bt
    /\ v' = 0 /\ str' = <<>>
    /\ UNCHANGED <<a, b, c, n>>

\* r = gf2p127_add(a, b)
Add ==
  /\ op' = "add" /\ r' = gf2p127_add(a, b)
  /\ bit' = FALSE /\ v' = 0 /\ str' = <<>>
  /\ UNCHANGED <<a, b, c, n>>

\* r = gf2p127_mul_00(a)
Mul00 ==
  /\ op' = "mul_00" /\ r' = gf2p127_mul_00(a)
  /\ bit' = FALSE /\ v' = 0 /\ str' = <<>>
  /\ UNCHANGED <<a, b, c, n>>

\* r = gf2p127_mul_01(a)
Mul01 ==
  /\ op' = "mul_01" /\ r' = gf2p127_mul_01(a)
  /\ bit' = FALSE /\ v' = 0 /\ str' = <<>>
  /\ UNCHANGED <<a, b, c, n>>

\* r = gf2p127_mul_10(a)
Mul10 ==
  /\ op' = "mul_10" /\ r' = gf2p127_mul_10(a)
  /\ bit' = FALSE /\ v' = 0 /\ str' = <<>>
  /\ UNCHANGED <<a, b, c, n>>

\* r = gf2p127_mul_11(a)
Mul11 ==
  /\ op' = "mul_11" /\ r' = gf2p127_mul_11(a)
  /\ bit' = FALSE /\ v' = 0 /\ str' = <<>>
  /\ UNCHANGED <<a, b, c, n>>

\* r = gf2p127_mul(a, b)
Mul ==
  /\ op' = "mul" /\ r' = gf2p127_mul(a, b)
  /\ bit' = FALSE /\ v' = 0 /\ str' = <<>>
  /\ UNCHANGED <<a, b, c, n>>

\* gf2p127_hex(str, a): the buffer filled, no element returned
Hex ==
  /\ op' = "hex" /\ str' = gf2p127_hex(a)
  /\ r' = {} /\ bit' = FALSE /\ v' = 0
  /\ UNCHANGED <<a, b, c, n>>

\* the caller keeps the returned element as an operand of its next calls
Feed ==
  /\ op \in Producing
  /\ n < MaxFeed
  /\ a' = r /\ b' = a /\ c' = b
  /\ op' = "feed" /\ n' = n + 1
  /\ bit' = FALSE /\ v' = 0 /\ str' = <<>>
  /\ UNCHANGED r

Next ==
  \/ Zero \/ FromInt \/ MulBit \/ Add
  \/ Mul00 \/ Mul01 \/ Mul10 \/ Mul11 \/ Mul
  \/ Hex \/ Feed

Spec == Init /\ [][Next]_vars

SpecAny == InitAny /\ [][Next]_vars

-----------------------------------------------------------------------------
(* The reference the claims compare with: polynomials over GF(2) as sets   *)
(* of exponents, and their residue modulo f(x) = x^127 + x^63 + 1.         *)

SymDiff(x, y) == (x \ y) \cup (y \ x)

\* the carry-less (XOR-convolution) product of two polynomials
ClProduct(x, y) ==
  {k \in {i + j : i \in x, j \in y} :
      Cardinality({i \in x : (k - i) \in y}) % 2 = 1}

\* one substitution of x^127 = x^63 + 1 in every term of degree 127 or
\* more: x^k becomes x^(k-64) + x^(k-127)
Fold(p) ==
  LET high == {k \in p : k >= 127}
  IN  SymDiff(SymDiff(p \ high, {k - 64 : k \in high}), {k - 127 : k \in high})

\* the residue modulo f, the representative of degree below 127
RECURSIVE ModF(_)
ModF(p) == IF \A k \in p : k < 127 THEN p ELSE ModF(Fold(p))

\* the field product
FieldMul(x, y) == ModF(ClProduct(x, y))

\* the 128-bit container shifted left by one bit, bit 127 falling off
Shl1(x) == {k + 1 : k \in {j \in x : j < 127}}

\* the same with the reduction terms: bit 127 clear, bits 0 and 63 flipped
Shl1Reduced(x) == SymDiff(Shl1(x) \ {127}, {0, 63})

\* the product of x and y has terms the reduction has to fold
NeedsReduction(x, y) == \E k \in ClProduct(x, y) : k >= 127

\* the value of a hexadecimal digit, and the 64-bit word sixteen of them
\* denote, most significant first
DigitVal(ch) == CHOOSE d \in 0..15 : HexChars[d + 1] = ch

ParseHex16(digits) ==
  {k \in 0..63 : (DigitVal(digits[16 - (k \div 4)]) \div Pow2(k % 4)) % 2 = 1}

-----------------------------------------------------------------------------
(* The claims.                                                             *)

\* C1: on elements with bit 127 clear, gf2p127_mul returns the carry-less
\* product of its operands reduced modulo x^127 + x^63 + 1, as the
\* representative below 2^127.
C1_MulIsFieldProduct ==
  (op = "mul" /\ Canonical(a) /\ Canonical(b))
    => (r = FieldMul(a, b) /\ Canonical(r))

\* a product of two elements built by earlier calls that had to be reduced
C1_Witness ==
  /\ op = "mul" /\ n >= 1
  /\ Canonical(a) /\ Canonical(b)
  /\ \E k \in ClProduct(a, b) : k >= 191
  /\ r = FieldMul(a, b)

\* C2: every element the functions produce from produced elements has bit
\* 127 of its container clear.
C2_Bit127AlwaysClear ==
  Canonical(a) /\ Canonical(b) /\ Canonical(c) /\ Canonical(r)

\* a fed-back element multiplied with a product that overflows degree 126
C2_Witness ==
  /\ n >= 1 /\ op = "mul"
  /\ 127 \in ClProduct(a, b)
  /\ Canonical(r)

\* C3: on elements with bit 127 clear, the general multiplier applied to
\* from_int(0), from_int(1), from_int(2), from_int(3) agrees with mul_00
\* (zero), mul_01 (the element itself), mul_10 and mul_11.
C3_ConstMulConsistent ==
  Canonical(a) =>
    /\ op = "mul_00" =>
         /\ gf2p127_eq(gf2p127_mul(a, gf2p127_from_int(0)), r)
         /\ r = gf2p127_zero
    /\ op = "mul_01" =>
         /\ gf2p127_eq(gf2p127_mul(a, gf2p127_from_int(1)), r)
         /\ r = a
    /\ op = "mul_10" => gf2p127_eq(gf2p127_mul(a, gf2p127_from_int(2)), r)
    /\ op = "mul_11" => gf2p127_eq(gf2p127_mul(a, gf2p127_from_int(3)), r)

\* mul_11 of an element whose doubling overflows and carries across lanes
C3_Witness ==
  /\ op = "mul_11"
  /\ 126 \in a /\ 63 \in a /\ Canonical(a)
  /\ r = gf2p127_mul(a, gf2p127_from_int(3))

\* C4: on elements with bit 127 clear, gf2p127_mul_10(a) is x*a modulo f:
\* the 128-bit shift by one with the carry across the halves and, when a
\* has the coefficient of x^126, bit 127 cleared and bits 0 and 63 flipped;
\* the doubling of x^126 is x^63 + 1 and not the plain shift.
C4_Mul10IsTimesX ==
  (op = "mul_10" /\ Canonical(a)) =>
    /\ r = ModF({k + 1 : k \in a})
    /\ r = IF 126 \in a THEN Shl1Reduced(a) ELSE Shl1(a)
    /\ a = {126} => (r = {0, 63} /\ r # Shl1(a))

C4_Witness == op = "mul_10" /\ a = {126} /\ r = {0, 63}

\* C5: on elements with bit 127 clear,
\* mul(a, add(b, c)) == add(mul(a, b), mul(a, c)), compared by gf2p127_eq.
C5_Distributive ==
  (op = "mul" /\ Canonical(a) /\ Canonical(b) /\ Canonical(c)) =>
    gf2p127_eq(gf2p127_mul(a, gf2p127_add(b, c)),
               gf2p127_add(r, gf2p127_mul(a, c)))

\* three different non-zero operands, both products reduced
C5_Witness ==
  /\ op = "mul" /\ r = gf2p127_mul(a, b)
  /\ Canonical(a) /\ Canonical(b) /\ Canonical(c)
  /\ b # c /\ a # b /\ a # c
  /\ NeedsReduction(a, b) /\ NeedsReduction(a, c)
  /\ NeedsReduction(a, gf2p127_add(b, c))

\* C6: on elements with bit 127 clear,
\* mul(mul(a, b), c) == mul(a, mul(b, c)): a reduced product fed back as
\* the first or as the second operand gives the same element.
C6_Associative ==
  (op = "mul" /\ Canonical(a) /\ Canonical(b) /\ Canonical(c)) =>
    gf2p127_eq(gf2p127_mul(r, c), gf2p127_mul(a, gf2p127_mul(b, c)))

\* every one of the four products had to be reduced
C6_Witness ==
  /\ op = "mul" /\ r = gf2p127_mul(a, b)
  /\ Canonical(a) /\ Canonical(b) /\ Canonical(c)
  /\ NeedsReduction(a, b) /\ NeedsReduction(r, c)
  /\ NeedsReduction(b, c) /\ NeedsReduction(a, gf2p127_mul(b, c))
  /\ a # b /\ b # c /\ a # c

\* C7: gf2p127_hex writes exactly 32 hexadecimal digits, the high half in
\* the first 16 and the low half in the last 16, each padded with zeros,
\* and parsing the two groups gives back the 128-bit value.
C7_HexRoundTrip ==
  op = "hex" =>
    /\ Len(str) = 32
    /\ \A i \in 1..32 : \E d \in 1..16 : str[i] = HexChars[d]
    /\ \A i \in 1..16 :
         /\ str[i] = HexChars[Nibble(Lane1(a), 16 - i) + 1]
         /\ str[16 + i] = HexChars[Nibble(Lane0(a), 16 - i) + 1]
    /\ ParseHex16(SubSeq(str, 1, 16)) = Lane1(a)
    /\ ParseHex16(SubSeq(str, 17, 32)) = Lane0(a)
    /\ Pack(ParseHex16(SubSeq(str, 17, 32)), ParseHex16(SubSeq(str, 1, 16))) = a

\* a value with bit 127 set whose low half needs every padding zero
C7_Witness ==
  /\ op = "hex" /\ 127 \in a /\ Lane0(a) = {}
  /\ str[1] = "8" /\ str[17] = "0" /\ Len(str) = 32

\* C8: gf2p127_mul_bit(a, false) is zero and gf2p127_mul_bit(a, true) is a,
\* for every 128-bit a.
C8_BitGating ==
  op = "mul_bit" => r = (IF bit THEN a ELSE gf2p127_zero)

\* all 128 bits set, gated off
C8_Witness ==
  op = "mul_bit" /\ ~bit /\ a = 0..127 /\ r = gf2p127_zero

\* C9 as stated: gf2p127_mul_10 applies the reduction exactly when the top
\* bit of the high half of a (bit 63 of the lane, bit 127 of the container)
\* was 1, and is the plain shift otherwise.
C9_ReducesIffTopBitOfHighHalf ==
  op = "mul_10" =>
    r = IF 63 \in _mm_extract_epi64(a, 1) THEN Shl1Reduced(a) ELSE Shl1(a)

\* C9 amended: gf2p127_mul_10 applies the reduction exactly when bit 62 of
\* the high half of a (bit 126 of the container, the coefficient of x^126,
\* which the shift moves to the top of the high half) was 1, and is the
\* plain shift otherwise.
C9_ReducesIffBit126 ==
  op = "mul_10" =>
    /\ (r = Shl1Reduced(a)) <=> (62 \in _mm_extract_epi64(a, 1))
    /\ (r = Shl1(a)) <=> (62 \notin _mm_extract_epi64(a, 1))

\* both cases: an overflowing doubling and a doubling with only the carry
C9_Witness ==
  /\ op = "mul_10" /\ 126 \in a /\ 63 \in a
  /\ r = Shl1Reduced(a) /\ r # Shl1(a) /\ 64 \in r

\* C10: for arbitrary 128-bit a and b, bit 127 of gf2p127_mul(a, b) is 1
\* exactly when bit 127 of a and bit 127 of b are both 1.
C10_Bit127OfMul ==
  op = "mul" => ((127 \in r) <=> (127 \in a /\ 127 \in b))

\* both operands outside the field and the result outside it too
C10_Witness ==
  op = "mul" /\ 127 \in a /\ 127 \in b /\ a # b /\ 127 \in r

=============================================================================
